---- MODULE Spec2Model ----
(***************************************************************************)
(* Visitor / blog-view analytics: MemoryVisitorService                     *)
(* (app/services/visitor_service.py) and the maintenance operations of     *)
(* AnalyticsManager (scripts/analytics_manager.py) on the shared           *)
(* visitor_service singleton.                                              *)
(*                                                                         *)
(* Strings are sequences of symbols: a symbol is either the delimiter "|"  *)
(* or a word that contains no delimiter, so joining sequences is joining   *)
(* strings.  Python dicts keep insertion order and are sequences of        *)
(* records here; Python's None is the empty tuple and a present value x    *)
(* is <<x>>.                                                               *)
(***************************************************************************)
EXTENDS Integers, Sequences, FiniteSets, TLC

\* ---------------------------------------------------------------- bounds
\* a tracking call is made while the visits counted in the registry, the
\* blog-view events appended, the pageviews tracked and the calls suspended
\* are together fewer than MaxCalls
MaxCalls == 4
\* the same, in the specification that adds the maintenance operations
MaxStoreCalls == 3
\* the wall clock reads 0..MaxNow, in units of 12 hours
MaxNow == 1
\* the same, in the specification of the pageview service
MaxPageviews == 3
\* the same, in the specification of all operations
MaxServiceCalls == 2
\* the same, in the specification of the aging store
MaxAgingCalls == 2
\* the wall clock of the aging store reads 0..MaxLater
MaxLater == 16
\* the same as MaxCalls, in the specification of the calls that interleave
MaxConcurrentCalls == 3
\* pageviews tracked in the specification of the top pages
MaxBrowsed == 12
\* blog views tracked in the specification of the top posts
MaxRead == 12
\* visits tracked in the specification of the recent visitors
MaxArrived == 12
\* visits tracked in the specification of the requests with a hint
MaxHinted == 3

\* ----------------------------------------------------------- input domains
None == <<>>
Some(x) == <<x>>

UserAgents        == { <<"a">>, <<"a", "|", "b">> }
AcceptLanguages   == { <<"b">>, <<"b", "|", "b">> }
ScreenResolutions == { <<"unknown">> }
Timezones         == { <<"UTC">> }
Platforms         == { <<"unknown">> }
Languages         == { <<"unknown">> }
Referrers         == { None }

\* VisitorTrackRequest
VisitorTrackRequest ==
    [ visitor_id : {None}, user_agent : UserAgents,
      accept_language : AcceptLanguages,
      screen_resolution : ScreenResolutions, timezone : Timezones,
      platform : Platforms, language : Languages, referrer : Referrers ]

\* the request track_blog_view builds for a token the registry has not seen
FallbackRequest ==
    [ visitor_id |-> None, user_agent |-> <<"unknown">>,
      accept_language |-> <<"unknown">>, screen_resolution |-> <<"unknown">>,
      timezone |-> <<"UTC">>, platform |-> <<"unknown">>,
      language |-> <<"unknown">>, referrer |-> None ]

Slugs  == { "intro", "x" }
Titles == { << "T" >> }
\* tokens a caller can send that uuid4 never produced
UnknownTokens == { << "anonymous", 0 >> }

\* str(uuid4()): a value no earlier draw and no caller produced; the draws
\* are named by what they identify and their rank among those draws
uuid4(kind, n) == << kind, n >>

\* ------------------------------------------------------------------ state
VARIABLES
    visitors,          \* MemoryVisitorService.visitors, in insertion order
    blog_views,        \* MemoryVisitorService.blog_views
    visitor_sessions,  \* MemoryVisitorService.visitor_sessions
    original_data,     \* AnalyticsManager.original_data
    backup_data,       \* AnalyticsManager.backup_data (instance attribute)
    now,               \* datetime.now(timezone.utc), in units of 12 hours
    views_appended,    \* blog-view events appended so far
    result,            \* what the last operation returned or raised
    tuple_calls,       \* history: track_visitor calls made per attribute tuple
    first_id,          \* history: visitor_id returned by the first call per tuple
    pair_calls,        \* history: track_blog_view calls made per (token, slug)
    pageviews,         \* MemoryPageviewService.pageviews
    pageview_calls,    \* history: track_pageview calls made so far
    pending            \* calls suspended at an await, each with its position

vars == << visitors, blog_views, visitor_sessions, original_data, backup_data,
           now, views_appended, result, tuple_calls, first_id, pair_calls,
           pageviews, pageview_calls, pending >>

\* ----------------------------------------------------------- small helpers
Range(s) == { s[i] : i \in DOMAIN s }

\* the five attributes the fingerprint is derived from
AttributeTuple(request) ==
    << request.user_agent, request.accept_language, request.screen_resolution,
       request.timezone, request.platform >>

AttributeTuples ==
    { AttributeTuple(r) : r \in VisitorTrackRequest \cup {FallbackRequest} }

\* ------------------------------------------------------ fingerprint deriver
\* hashlib.sha256(data.encode()).hexdigest()[:32]: a collision-free digest,
\* a tagged value that is no string and is equal only for equal data
sha256_hexdigest_32(data) == << "sha256", data >>

\* the language field joined in as a sixth attribute
fingerprint_data_with_language(request) ==
    request.user_agent \o <<"|">> \o request.accept_language \o <<"|">>
      \o request.screen_resolution \o <<"|">> \o request.timezone \o <<"|">>
      \o request.platform \o <<"|">> \o request.language

\* f"{user_agent}|{accept_language}|{screen_resolution}|{timezone}|{platform}"
fingerprint_data(request) ==
    request.user_agent \o <<"|">> \o request.accept_language \o <<"|">>
      \o request.screen_resolution \o <<"|">> \o request.timezone \o <<"|">>
      \o request.platform

_generate_fingerprint(request) == sha256_hexdigest_32(fingerprint_data(request))

\* -------------------------------------------------------- visitor registry
Min(S) == CHOOSE m \in S : \A k \in S : m <= k


\* the scan left after its first iteration: only the oldest record is compared
existing_visitor_index_first_only(vs, fingerprint) ==
    LET matches == { i \in DOMAIN vs :
                       i = 1 /\ vs[i].fingerprint = fingerprint }
    IN  IF matches = {} THEN 0 ELSE Min(matches)

\* the scan of track_visitor: index of the first record whose fingerprint
\* matches, 0 when the loop ends without a match
existing_visitor_index(vs, fingerprint) ==
    LET matches == { i \in DOMAIN vs : vs[i].fingerprint = fingerprint }
    IN  IF matches = {} THEN 0 ELSE Min(matches)

\* the membership test taken for false whatever the registry holds
IsVisitorKeyNever(vs, token) == FALSE

\* visitor_id in self.visitors
IsVisitorKey(vs, token) == \E i \in DOMAIN vs : vs[i].id = token

\* the increment left out
returning_total_visits_unchanged(visitor) == visitor.total_visits

\* the default of get counted on top of the stored count
returning_total_visits_twice(visitor) == visitor.total_visits + 1 + 1

\* the visit count taken down by one on a return
returning_total_visits_less(visitor) == visitor.total_visits - 1

\* visitor["total_visits"] = (visitor.get("total_visits", 1) + 1); every
\* record is created with the key, so the default is never taken
returning_total_visits(visitor) == visitor.total_visits + 1

\* the registry rebound to a dict holding the new record alone
insert_visitor_alone(vs, visitor) == << visitor >>

\* self.visitors[visitor_id] = visitor, for a key drawn fresh from uuid4
insert_visitor(vs, visitor) == Append(vs, visitor)

\* MemoryVisitorService.track_visitor at clock reading t: the new registry,
\* the new session lists and the VisitorTrackResponse
track_visitor(vs, sessions, request, t) ==
    LET fingerprint == _generate_fingerprint(request)
        i == existing_visitor_index(vs, fingerprint)
    IN  IF i # 0
        THEN \* returning visitor
             LET existing_visitor_id == vs[i].id
                 total == returning_total_visits(vs[i])
                 prior == IF existing_visitor_id \in DOMAIN sessions
                          THEN sessions[existing_visitor_id] ELSE << >>
             IN  [ visitors |-> [ vs EXCEPT ![i].total_visits = total,
                                            ![i].last_visit_at = t ],
                   visitor_sessions |->
                       [ k \in DOMAIN sessions \cup {existing_visitor_id} |->
                           IF k = existing_visitor_id THEN Append(prior, t)
                           ELSE sessions[k] ],
                   response |-> [ visitor_id |-> existing_visitor_id,
                                  is_new_visitor |-> FALSE,
                                  total_visits |-> total,
                                  last_visit_at |-> t ] ]
        ELSE \* new visitor
             LET visitor_id == uuid4("visitor", Len(vs) + 1)
                 visitor == [ id |-> visitor_id,
                              fingerprint |-> fingerprint,
                              user_agent |-> request.user_agent,
                              accept_language |-> request.accept_language,
                              screen_resolution |-> request.screen_resolution,
                              timezone |-> request.timezone,
                              platform |-> request.platform,
                              language |-> request.language,
                              referrer |-> request.referrer,
                              first_visit_at |-> t,
                              last_visit_at |-> t,
                              total_visits |-> 1,
                              is_new_visitor |-> TRUE ]
             IN  [ visitors |-> insert_visitor(vs, visitor),
                   visitor_sessions |->
                       [ k \in DOMAIN sessions \cup {visitor_id} |->
                           IF k = visitor_id THEN << t >> ELSE sessions[k] ],
                   response |-> [ visitor_id |-> visitor_id,
                                  is_new_visitor |-> TRUE,
                                  total_visits |-> 1,
                                  last_visit_at |-> t ] ]

\* ------------------------------------------------------------- event store
\* the comprehension without its condition
views_of_slug_unfiltered(views, slug) == views

\* [v for v in self.blog_views if v["blog_slug"] == slug]
views_of_slug(views, slug) == SelectSeq(views, LAMBDA v : v.blog_slug = slug)

\* the viewer set built from the events' own ids: no token is ever in it
is_new_view_of_by_view_id(existing_views, visitor_id) ==
    LET unique_viewers == { existing_views[i].id : i \in DOMAIN existing_views }
    IN  visitor_id \notin unique_viewers

\* unique_viewers = set(v["visitor_id"] for v in existing_views)
\* is_new_view = request.visitor_id not in unique_viewers
is_new_view_of(existing_views, visitor_id) ==
    LET unique_viewers == { existing_views[i].visitor_id :
                              i \in DOMAIN existing_views }
    IN  visitor_id \notin unique_viewers

\* the appended event left out of the total
total_blog_views_of_before(existing_views) == Len(existing_views)

\* total_blog_views=len(existing_views) + 1
total_blog_views_of(existing_views) == Len(existing_views) + 1

\* the store as it was when the call started, before the await of the
\* fallback registration
store_read_before_await(at_call, at_resume) == at_call

\* self.blog_views as line 106 reads it: the store at the time the call
\* runs on after the fallback branch, not as it was when the call started
store_read_after_await(at_call, at_resume) == at_resume

\* track_blog_view from its line 105 on: is_new_view computed against the
\* events seen, the event appended to the store, the response
track_blog_view_from_line_105(views_seen, views, request, is_localhost, view_id, t) ==
    LET existing_views == views_of_slug(views_seen, request.blog_slug)
        is_new_view == is_new_view_of(existing_views, request.visitor_id)
        view == [ id |-> view_id,
                  visitor_id |-> request.visitor_id,
                  blog_slug |-> request.blog_slug,
                  blog_title |-> request.blog_title,
                  viewed_at |-> t,
                  is_unique_view |-> is_new_view,
                  is_localhost |-> is_localhost ]
    IN  [ blog_views |-> Append(views, view),
          response |-> [ view_id |-> view_id,
                         is_new_view |-> is_new_view,
                         total_blog_views |->
                             total_blog_views_of(existing_views) ] ]

\* MemoryVisitorService.track_blog_view at clock reading t, after n earlier
\* draws of a view id, run without another call in between: the fallback
\* registration, then the append
track_blog_view(vs, sessions, views, request, is_localhost, t, n) ==
    LET view_id == uuid4("view", n + 1)
        reg == IF ~IsVisitorKey(vs, request.visitor_id)
               THEN track_visitor(vs, sessions, FallbackRequest, t)
               ELSE [ visitors |-> vs, visitor_sessions |-> sessions ]
        rest == track_blog_view_from_line_105(
                    store_read_after_await(views, views), views, request,
                    is_localhost, view_id, t)
    IN  [ visitors |-> reg.visitors,
          visitor_sessions |-> reg.visitor_sessions,
          blog_views |-> rest.blog_views,
          response |-> rest.response ]

\* timedelta(days=n), in the clock's units of 12 hours
timedelta_days(n) == 2 * n

\* timedelta.days: the whole days of a difference of two clock readings,
\* rounded towards minus infinity
days(delta) == delta \div 2

Max(S) == CHOOSE m \in S : \A k \in S : k <= m

\* sorted(items, key=...), the reverse flag left out: by key ascending
sorted_ascending(items, keys) ==
    LET rank(i) == Cardinality({ j \in DOMAIN items :
                       \/ keys[j] < keys[i]
                       \/ keys[j] = keys[i] /\ j < i }) + 1
    IN  [ r \in 1..Len(items) |->
            items[CHOOSE i \in DOMAIN items : rank(i) = r] ]

\* the list sorted by key ascending and then reversed: by key descending,
\* items of equal key in the reverse of the order they had
sorted_then_reversed(items, keys) ==
    LET rank(i) == Cardinality({ j \in DOMAIN items :
                       \/ keys[j] > keys[i]
                       \/ keys[j] = keys[i] /\ j > i }) + 1
    IN  [ r \in 1..Len(items) |->
            items[CHOOSE i \in DOMAIN items : rank(i) = r] ]

\* sorted(items, key=..., reverse=True), keys[i] being the key of items[i]:
\* by key descending, items of equal key in the order they had
sorted_reverse(items, keys) ==
    LET rank(i) == Cardinality({ j \in DOMAIN items :
                       \/ keys[j] > keys[i]
                       \/ keys[j] = keys[i] /\ j < i }) + 1
    IN  [ r \in 1..Len(items) |->
            items[CHOOSE i \in DOMAIN items : rank(i) = r] ]

\* items[:n + 1]
first_n_and_next(items, n) == SubSeq(items, 1, Min({ n + 1, Len(items) }))

\* items[:n]
first_n(items, n) == SubSeq(items, 1, Min({ n, Len(items) }))

\* the keys of a dict filled in one pass over events, in insertion order:
\* the members of values, a sequence, by first appearance
keys_in_first_seen_order(values) ==
    LET first(k) == Min({ i \in DOMAIN values : values[i] = k })
        keys == Range(values)
        rank(k) == Cardinality({ w \in keys : first(w) <= first(k) })
    IN  [ r \in 1..Cardinality(keys) |-> CHOOSE k \in keys : rank(k) = r ]

\* the set built from the events' own ids, one member per event
viewer_tokens_by_event_id(events) == { events[i].id : i \in DOMAIN events }

\* set(v["visitor_id"] for v in blog_views)
viewer_tokens(events) == { events[i].visitor_id : i \in DOMAIN events }

\* MemoryVisitorService.get_blog_views at clock reading t
get_blog_views(views, slug, t) ==
    LET slug_views == views_of_slug(views, slug)
        unique_viewers == viewer_tokens(slug_views)
        recent == SelectSeq(slug_views, LAMBDA v : days(t - v.viewed_at) <= 7)
    IN  [ slug |-> slug,
          total_views |-> Len(slug_views),
          unique_views |-> Cardinality(unique_viewers),
          recent_views |-> Len(recent),
          last_viewed_at |->
              IF slug_views # << >>
              THEN Some(Max({ slug_views[i].viewed_at : i \in DOMAIN slug_views }))
              ELSE None ]

RECURSIVE sum(_)
\* sum(...) over a sequence of numbers
sum(numbers) == IF numbers = << >> THEN 0
                ELSE Head(numbers) + sum(Tail(numbers))

\* datetime.isoformat(): the text of a clock reading, which is no datetime
isoformat(t) == << "isoformat", t >>

\* MemoryVisitorService.get_visitor_stats
get_visitor_stats(vs, views) ==
    LET total_visitors == Len(vs)
        new_visitors   == Len(SelectSeq(vs, LAMBDA v : v.total_visits = 1))
        slugs          == keys_in_first_seen_order(
                              [ i \in DOMAIN views |-> views[i].blog_slug ])
        of_slug(sl)    == views_of_slug(views, sl)
        blog_views_by_slug ==
            [ r \in DOMAIN slugs |->
                [ slug |-> slugs[r],
                  count |-> Len(of_slug(slugs[r])),
                  unique_viewers |-> { of_slug(slugs[r])[i].visitor_id :
                                         i \in DOMAIN of_slug(slugs[r]) },
                  title |-> of_slug(slugs[r])[1].blog_title ] ]
        top            == first_n(sorted_reverse(blog_views_by_slug,
                              [ r \in DOMAIN blog_views_by_slug |->
                                  blog_views_by_slug[r].count ]), 10)
        recent         == first_n(sorted_reverse(vs,
                              [ i \in DOMAIN vs |-> vs[i].last_visit_at ]), 10)
    IN  [ total_visitors |-> total_visitors,
          new_visitors |-> new_visitors,
          returning_visitors |-> total_visitors - new_visitors,
          total_blog_views |-> Len(views),
          unique_blog_views |->
              sum([ r \in DOMAIN blog_views_by_slug |->
                      Cardinality(blog_views_by_slug[r].unique_viewers) ]),
          top_blog_posts |->
              [ r \in DOMAIN top |->
                  [ slug |-> top[r].slug,
                    title |-> top[r].title,
                    view_count |-> top[r].count,
                    unique_viewers |-> Cardinality(top[r].unique_viewers) ] ],
          recent_visitors |->
              [ r \in DOMAIN recent |->
                  [ visitorId |-> recent[r].id,
                    isNewVisitor |-> recent[r].total_visits = 1,
                    totalVisits |-> recent[r].total_visits,
                    lastVisitAt |-> isoformat(recent[r].last_visit_at) ] ] ]

\* ------------------------------------------------------------ blog service
RECURSIVE gcd(_, _)
gcd(a, b) == IF b = 0 THEN a ELSE gcd(b, a % b)

\* a / b for positive integers: the quotient as a fraction in lowest terms
true_division(a, b) ==
    [ numerator |-> a \div gcd(a, b), denominator |-> b \div gcd(a, b) ]

\* visitor_id = "anonymous"
anonymous == << "anonymous", 0 >>

\* f"Blog post: {slug}"
blog_post_title(slug) == << "Blog post: ", slug >>

\* VisitorBlogViewRequest(visitor_id="anonymous", blog_slug=slug, ...)
anonymous_view_request(slug) ==
    [ visitor_id |-> anonymous, blog_slug |-> slug,
      blog_title |-> blog_post_title(slug) ]

\* the response built from the statistics read before the view was tracked
increment_blog_view_stale(vs, sessions, views, slug, t, n) ==
    LET current_data == get_blog_views(views, slug, t)
        view_result  == track_blog_view(vs, sessions, views,
                                        anonymous_view_request(slug),
                                        FALSE, t, n)
    IN  [ visitors |-> view_result.visitors,
          visitor_sessions |-> view_result.visitor_sessions,
          blog_views |-> view_result.blog_views,
          response |-> [ slug |-> slug,
                         total_views |-> current_data.total_views,
                         unique_views |-> current_data.unique_views,
                         is_new_view |-> view_result.response.is_new_view ] ]

\* MemoryBlogService.increment_blog_view at clock reading t, after n earlier
\* appends; session_id, user_agent and referrer are not read
increment_blog_view(vs, sessions, views, slug, t, n) ==
    LET current_data == get_blog_views(views, slug, t)
        view_request == anonymous_view_request(slug)
        view_result  == track_blog_view(vs, sessions, views, view_request,
                                        FALSE, t, n)
        updated_data == get_blog_views(view_result.blog_views, slug, t)
    IN  [ visitors |-> view_result.visitors,
          visitor_sessions |-> view_result.visitor_sessions,
          blog_views |-> view_result.blog_views,
          response |-> [ slug |-> slug,
                         total_views |-> updated_data.total_views,
                         unique_views |-> updated_data.unique_views,
                         is_new_view |-> view_result.response.is_new_view ] ]

\* MemoryBlogService.get_blog_stats
get_blog_stats(vs, views) ==
    LET visitor_stats    == get_visitor_stats(vs, views)
        total_views      == visitor_stats.total_blog_views
        unique_views     == visitor_stats.unique_blog_views
        unique_slugs     == { views[i].blog_slug : i \in DOMAIN views }
        total_blog_posts == Cardinality(unique_slugs)
    IN  [ total_blog_posts |-> total_blog_posts,
          total_views |-> total_views,
          total_unique_views |-> unique_views,
          average_views_per_post |->
              IF total_blog_posts > 0
              THEN true_division(total_views, total_blog_posts) ELSE 0,
          top_posts |-> visitor_stats.top_blog_posts ]

\* MemoryBlogService.get_multiple_blog_analytics at clock reading t: one
\* entry per requested slug, in the order of the request
get_multiple_blog_analytics(views, slugs, t) ==
    [ k \in DOMAIN slugs |->
        LET views_data == get_blog_views(views, slugs[k], t)
        IN  [ slug |-> slugs[k],
              total_views |-> views_data.total_views,
              unique_views |-> views_data.unique_views,
              recent_views |-> views_data.recent_views ] ]

\* ------------------------------------------------------- pageview service
\* a datetime is timezone-aware (an instant on the clock) or naive (a wall
\* reading that carries no offset)
aware(t) == << "aware", t >>
naive(t) == << "naive", t >>

\* datetime.__ge__ and __lt__ raise TypeError between an aware and a naive
\* operand
comparable(d, e) == d[1] = e[1]

Urls       == { "/", "/a" }
PageTitles == { None }
\* instants a client can report, around the windows of a call made on day 0
ClientInstants == { -15, -1, 2 }
NaiveReadings  == { 0 }

\* PageviewRequest
PageviewRequest ==
    [ url : Urls, title : PageTitles, referrer : {None}, user_agent : {None},
      timestamp : {None} \cup { Some(aware(t)) : t \in ClientInstants }
                         \cup { Some(naive(t)) : t \in NaiveReadings } ]

\* the receipt time stored whether or not the client reported a time
timestamp_or_now_always_now(timestamp, t) == aware(t)

\* request.timestamp or now; every datetime is truthy, so the right operand
\* is taken exactly when the timestamp is None
timestamp_or_now(timestamp, t) ==
    IF timestamp # None THEN timestamp[1] ELSE aware(t)

\* the list rebound to the new event alone
append_pageview_alone(pvs, pageview) == << pageview >>

\* self.pageviews.append(pageview)
append_pageview(pvs, pageview) == Append(pvs, pageview)

\* MemoryPageviewService.track_pageview at clock reading t, after n earlier
\* calls
track_pageview(pvs, request, screen_resolution, timezone_str, platform, session_id, t, n) ==
    LET pageview_id == uuid4("pageview", n + 1)
        pageview == [ id |-> pageview_id,
                      url |-> request.url,
                      title |-> request.title,
                      referrer |-> request.referrer,
                      user_agent |-> request.user_agent,
                      timestamp |-> timestamp_or_now(request.timestamp, t),
                      tracked_at |-> aware(t),
                      screen_resolution |-> screen_resolution,
                      timezone |-> timezone_str,
                      platform |-> platform,
                      session_id |-> session_id ]
    IN  [ pageviews |-> append_pageview(pvs, pageview),
          response |-> [ pageview_id |-> pageview_id,
                         tracked_at |-> aware(t) ] ]

\* now.replace(hour=0, minute=0, second=0, microsecond=0)
midnight_of(t) == t - (t % timedelta_days(1))

\* the comparison with today_start left out: every pageview is of today
in_today_always(timestamp, today_start) == TRUE

\* p["timestamp"] >= today_start
in_today(timestamp, today_start) == timestamp[2] >= today_start

\* MemoryPageviewService.get_pageview_stats at clock reading t
get_pageview_stats(pvs, t) ==
    LET today_start     == midnight_of(t)
        yesterday_start == today_start - timedelta_days(1)
        week_start      == today_start - timedelta_days(7)
        urls            == keys_in_first_seen_order(
                               [ i \in DOMAIN pvs |-> pvs[i].url ])
        first_of(url)   == pvs[Min({ i \in DOMAIN pvs : pvs[i].url = url })]
        url_counts ==
            [ r \in DOMAIN urls |->
                [ url |-> urls[r],
                  count |-> Len(SelectSeq(pvs, LAMBDA p : p.url = urls[r])),
                  title |-> first_of(urls[r]).title ] ]
    IN  IF \E i \in DOMAIN pvs :
               ~comparable(pvs[i].timestamp, aware(today_start))
        THEN [ raised |-> Some("TypeError"), returned |-> None ]
        ELSE [ raised |-> None,
               returned |-> Some(
                 [ total |-> Len(pvs),
                   today |-> Len(SelectSeq(pvs,
                       LAMBDA p : in_today(p.timestamp, today_start))),
                   yesterday |-> Len(SelectSeq(pvs,
                       LAMBDA p : /\ yesterday_start <= p.timestamp[2]
                                  /\ p.timestamp[2] < today_start)),
                   this_week |-> Len(SelectSeq(pvs,
                       LAMBDA p : p.timestamp[2] >= week_start)),
                   unique_urls |->
                       Cardinality({ pvs[i].url : i \in DOMAIN pvs }),
                   top_pages |->
                       first_n(sorted_reverse(url_counts,
                           [ r \in DOMAIN url_counts |-> url_counts[r].count ]),
                           10) ]) ]

\* ------------------------------------------------------ analytics manager
\* the flag read with a misplaced not
is_localhost_view_negated(v) == ~v.is_localhost

\* v.get("is_localhost", False); every stored event carries the key
is_localhost_view(v) == v.is_localhost

\* round(part / total * 100, 2) in hundredths of a percent; a store of
\* fewer than 64 events has no quotient half-way between two hundredths
percentage_2dp(part, total) == (2 * 10000 * part + total) \div (2 * total)

\* AnalyticsManager.get_analytics_overview
get_analytics_overview(views) ==
    LET localhost_views  == SelectSeq(views, is_localhost_view)
        production_views == SelectSeq(views, LAMBDA v : ~is_localhost_view(v))
        visitor_ids(sq)  == { sq[i].visitor_id : i \in DOMAIN sq }
        slugs            == { views[i].blog_slug : i \in DOMAIN views }
        of_slug(sl)      == views_of_slug(views, sl)
        times            == { views[i].viewed_at : i \in DOMAIN views }
    IN  [ total_views |-> Len(views),
          localhost_views |-> Len(localhost_views),
          production_views |-> Len(production_views),
          total_visitors |-> Cardinality(visitor_ids(views)),
          localhost_visitors |-> Cardinality(visitor_ids(localhost_views)),
          production_visitors |-> Cardinality(visitor_ids(production_views)),
          blog_stats |->
              [ sl \in slugs |->
                  [ total |-> Len(of_slug(sl)),
                    localhost |-> Len(SelectSeq(of_slug(sl), is_localhost_view)),
                    production |->
                        Len(SelectSeq(of_slug(sl),
                                      LAMBDA v : ~is_localhost_view(v))),
                    unique_visitors |-> Cardinality(visitor_ids(of_slug(sl))),
                    localhost_visitors |->
                        Cardinality(visitor_ids(
                            SelectSeq(of_slug(sl), is_localhost_view))) ] ],
          latest_view |-> IF views # << >> THEN Some(Max(times)) ELSE None,
          oldest_view |-> IF views # << >> THEN Some(Min(times)) ELSE None,
          date_range_days |->
              IF views # << >> THEN days(Max(times) - Min(times)) ELSE 0,
          localhost_percentage |->
              IF Len(views) > 0
              THEN percentage_2dp(Len(localhost_views), Len(views)) ELSE 0 ]

\* self.backup_data(before_stats): __init__ binds the instance attribute
\* backup_data to None, which hides the method of the same name, so the
\* call raises TypeError before anything is written
call_backup_data(attribute) ==
    IF attribute = None THEN "TypeError" ELSE "written"

\* the filter without its not: the non-canonical events are the ones kept
without_localhost_inverted(views) == SelectSeq(views, is_localhost_view)

\* [v for v in visitor_service.blog_views if not v.get("is_localhost", False)]
without_localhost(views) == SelectSeq(views, LAMBDA v : ~is_localhost_view(v))

\* if before_stats['localhost_views'] == 0: return False, before, before
nothing_to_clean(before_stats) == before_stats.localhost_views = 0

\* the copy for the restore taken after the filter, not before it
cleanup_localhost_views_copy_after(views, original, attribute, create_backup) ==
    LET before_stats == get_analytics_overview(views)
    IN  IF nothing_to_clean(before_stats)
        THEN [ blog_views |-> views, original_data |-> original,
               raised |-> None,
               returned |-> Some(<< FALSE, before_stats, before_stats >>) ]
        ELSE IF create_backup /\ call_backup_data(attribute) = "TypeError"
        THEN [ blog_views |-> views, original_data |-> original,
               raised |-> Some("TypeError"), returned |-> None ]
        ELSE LET cleaned == without_localhost(views)
             IN  [ blog_views |-> cleaned, original_data |-> Some(cleaned),
                   raised |-> None,
                   returned |-> Some(<< TRUE, before_stats,
                                        get_analytics_overview(cleaned) >>) ]

\* AnalyticsManager.cleanup_localhost_views: the new store, the new
\* original_data and the returned tuple, or the exception raised
cleanup_localhost_views(views, original, attribute, create_backup) ==
    LET before_stats == get_analytics_overview(views)
    IN  IF nothing_to_clean(before_stats)
        THEN [ blog_views |-> views, original_data |-> original,
               raised |-> None,
               returned |-> Some(<< FALSE, before_stats, before_stats >>) ]
        ELSE IF create_backup /\ call_backup_data(attribute) = "TypeError"
        THEN [ blog_views |-> views, original_data |-> original,
               raised |-> Some("TypeError"), returned |-> None ]
        ELSE LET cleaned == without_localhost(views)
             IN  [ blog_views |-> cleaned, original_data |-> Some(views),
                   raised |-> None,
                   returned |-> Some(<< TRUE, before_stats,
                                        get_analytics_overview(cleaned) >>) ]

\* AnalyticsManager.restore_data
restore_data(views, original) ==
    IF original = None
    THEN [ blog_views |-> views, returned |-> FALSE ]
    ELSE [ blog_views |-> original[1], returned |-> TRUE ]

\* ------------------------------------------------------------------- model
RECURSIVE SumVisits(_)
SumVisits(vs) == IF vs = << >> THEN 0
                 ELSE Head(vs).total_visits + SumVisits(Tail(vs))

\* the tracking calls the stores and counters show, and the calls suspended
CallsRecorded ==
    SumVisits(visitors) + views_appended + pageview_calls + Len(pending)

\* the view ids drawn from uuid4 so far: one per event appended and one per
\* suspended track_blog_view call, which draws its id on line 90
ViewIdsDrawn ==
    views_appended
      + Cardinality({ i \in DOMAIN pending :
                        pending[i].pc \in { "fallback", "append" } })

VisitorBlogViewRequest ==
    [ visitor_id : { visitors[i].id : i \in DOMAIN visitors } \cup UnknownTokens,
      blog_slug : Slugs, blog_title : Titles ]

Init ==
    /\ visitors = << >>
    /\ blog_views = << >>
    /\ visitor_sessions = << >>
    /\ original_data = None
    /\ backup_data = None
    /\ now = 0
    /\ views_appended = 0
    /\ result = [ op |-> "init" ]
    /\ tuple_calls = [ a \in AttributeTuples |-> 0 ]
    /\ first_id = [ a \in AttributeTuples |-> None ]
    /\ pair_calls = << >>
    /\ pageviews = << >>
    /\ pageview_calls = 0
    /\ pending = << >>

\* POST /visitors/track, while fewer than limit visits and views are recorded
TrackVisitorWithin(limit) ==
    \E request \in VisitorTrackRequest :
        /\ CallsRecorded < limit
        /\ LET r == track_visitor(visitors, visitor_sessions, request, now)
               a == AttributeTuple(request)
           IN  /\ visitors' = r.visitors
               /\ visitor_sessions' = r.visitor_sessions
               /\ result' = [ op |-> "track_visitor", request |-> request,
                              response |-> r.response ]
               /\ tuple_calls' = [ tuple_calls EXCEPT ![a] = @ + 1 ]
               /\ first_id' = IF first_id[a] = None
                              THEN [ first_id EXCEPT
                                       ![a] = Some(r.response.visitor_id) ]
                              ELSE first_id
        /\ UNCHANGED << pageviews, pageview_calls, pending >>
        /\ UNCHANGED << blog_views, original_data, backup_data, now,
                        views_appended, pair_calls >>

TrackVisitor == TrackVisitorWithin(MaxCalls)

\* the request of the n-th browser to arrive: a user agent of its own
ArrivalRequest(n) ==
    [ visitor_id |-> None, user_agent |-> << "ua", n >>,
      accept_language |-> << "b" >>, screen_resolution |-> << "unknown" >>,
      timezone |-> << "UTC" >>, platform |-> << "unknown" >>,
      language |-> << "unknown" >>, referrer |-> None ]

\* POST /visitors/track from arriving browsers, at most limit times: a
\* browser the registry has not seen arrives, or the first one returns
ArriveVisitorWithin(limit) ==
    \E request \in { ArrivalRequest(Len(visitors) + 1), ArrivalRequest(1) } :
        /\ SumVisits(visitors) < limit
        /\ LET r == track_visitor(visitors, visitor_sessions, request, now)
               a == AttributeTuple(request)
               calls == IF a \in DOMAIN tuple_calls THEN tuple_calls[a] ELSE 0
           IN  /\ visitors' = r.visitors
               /\ visitor_sessions' = r.visitor_sessions
               /\ result' = [ op |-> "track_visitor", request |-> request,
                              response |-> r.response ]
               /\ tuple_calls' = [ b \in DOMAIN tuple_calls \cup {a} |->
                                     IF b = a THEN calls + 1
                                     ELSE tuple_calls[b] ]
               /\ first_id' = [ b \in DOMAIN first_id \cup {a} |->
                                  IF b = a /\ calls = 0
                                  THEN Some(r.response.visitor_id)
                                  ELSE first_id[b] ]
        /\ UNCHANGED << pageviews, pageview_calls, pending >>
        /\ UNCHANGED << blog_views, original_data, backup_data, now,
                        views_appended, pair_calls >>

ArriveVisitor == ArriveVisitorWithin(MaxArrived)

\* VisitorTrackRequest with the fields the fingerprint leaves out varied:
\* the language, the referrer, and a visitor_id hint that names the first
\* registered visitor, whoever that is
HintedTrackRequest ==
    [ visitor_id : { None, Some(uuid4("visitor", 1)) },
      user_agent : UserAgents, accept_language : { << "b" >> },
      screen_resolution : ScreenResolutions, timezone : Timezones,
      platform : Platforms, language : { << "unknown" >>, << "en" >> },
      referrer : { None, Some(<< "r" >>) } ]

\* POST /visitors/track with such a request, at most limit times
TrackHintedVisitorWithin(limit) ==
    \E request \in HintedTrackRequest :
        /\ SumVisits(visitors) < limit
        /\ LET r == track_visitor(visitors, visitor_sessions, request, now)
               a == AttributeTuple(request)
           IN  /\ visitors' = r.visitors
               /\ visitor_sessions' = r.visitor_sessions
               /\ result' = [ op |-> "track_visitor", request |-> request,
                              response |-> r.response ]
               /\ tuple_calls' = [ tuple_calls EXCEPT ![a] = @ + 1 ]
               /\ first_id' = IF first_id[a] = None
                              THEN [ first_id EXCEPT
                                       ![a] = Some(r.response.visitor_id) ]
                              ELSE first_id
        /\ UNCHANGED << pageviews, pageview_calls, pending >>
        /\ UNCHANGED << blog_views, original_data, backup_data, now,
                        views_appended, pair_calls >>

TrackHintedVisitor == TrackHintedVisitorWithin(MaxHinted)

\* one more call counted for a (token, slug) pair
Counted(calls, pair) ==
    [ p \in DOMAIN calls \cup {pair} |->
        IF p \in DOMAIN calls
        THEN (IF p = pair THEN calls[p] + 1 ELSE calls[p])
        ELSE 1 ]

\* POST /visitors/track-blog-view, and direct calls with is_localhost set,
\* while fewer than limit visits and views are recorded
TrackBlogViewWithin(limit) ==
    \E request \in VisitorBlogViewRequest, is_localhost \in BOOLEAN :
        LET known == IsVisitorKey(visitors, request.visitor_id)
            r == track_blog_view(visitors, visitor_sessions, blog_views,
                                 request, is_localhost, now, ViewIdsDrawn)
            a == AttributeTuple(FallbackRequest)
        IN  /\ CallsRecorded < limit
            /\ visitors' = r.visitors
            /\ visitor_sessions' = r.visitor_sessions
            /\ views_appended' = views_appended + 1
            /\ blog_views' = r.blog_views
            /\ result' = [ op |-> "track_blog_view", request |-> request,
                           is_localhost |-> is_localhost,
                           response |-> r.response ]
            /\ tuple_calls' = IF known THEN tuple_calls
                              ELSE [ tuple_calls EXCEPT ![a] = @ + 1 ]
            /\ first_id' = IF ~known /\ first_id[a] = None
                           THEN [ first_id EXCEPT
                                    ![a] = Some(r.visitors[Len(r.visitors)].id) ]
                           ELSE first_id
            /\ pair_calls' = Counted(pair_calls, << request.visitor_id,
                                                    request.blog_slug >>)
            /\ UNCHANGED << pageviews, pageview_calls, pending >>
            /\ UNCHANGED << original_data, backup_data, now >>

TrackBlogView == TrackBlogViewWithin(MaxCalls)

\* a store a read has run over, rebound to an empty one
read_only_cleared(store) == << >>

\* a store a read has run over: the reads bind their comprehensions, sets,
\* dicts and sorted() lists to local names and assign no attribute of a
\* service, no key of a stored dict and no item of a stored list
read_only(store) == store

\* the four stores after a read, and what no read has in reach
StoresAfterRead ==
    /\ visitors' = read_only(visitors)
    /\ visitor_sessions' = read_only(visitor_sessions)
    /\ blog_views' = read_only(blog_views)
    /\ pageviews' = read_only(pageviews)
    /\ UNCHANGED << original_data, backup_data, now, views_appended,
                    tuple_calls, first_id, pair_calls, pageview_calls,
                    pending >>

\* GET /visitors/blog/{slug}/views
GetBlogViews ==
    \E slug \in Slugs :
        /\ result' = [ op |-> "get_blog_views", slug |-> slug,
                       response |-> get_blog_views(blog_views, slug, now) ]
        /\ StoresAfterRead

\* AnalyticsManager.get_analytics_overview
GetAnalyticsOverview ==
    /\ result' = [ op |-> "get_analytics_overview",
                   response |-> get_analytics_overview(blog_views) ]
    /\ StoresAfterRead

\* AnalyticsManager.cleanup_localhost_views(create_backup)
CleanupLocalhostViews ==
    \E create_backup \in BOOLEAN :
        LET r == cleanup_localhost_views(blog_views, original_data,
                                         backup_data, create_backup)
        IN  /\ blog_views' = r.blog_views
            /\ original_data' = r.original_data
            /\ result' = [ op |-> "cleanup_localhost_views",
                           create_backup |-> create_backup,
                           raised |-> r.raised, returned |-> r.returned ]
            /\ UNCHANGED << pageviews, pageview_calls, pending >>
            /\ UNCHANGED << visitors, visitor_sessions, backup_data, now,
                            views_appended, tuple_calls, first_id, pair_calls >>

\* AnalyticsManager.restore_data (main menu, choice 6)
RestoreData ==
    LET r == restore_data(blog_views, original_data)
    IN  /\ blog_views' = r.blog_views
        /\ result' = [ op |-> "restore_data", returned |-> r.returned ]
        /\ UNCHANGED << pageviews, pageview_calls, pending >>
        /\ UNCHANGED << visitors, visitor_sessions, original_data, backup_data,
                        now, views_appended, tuple_calls, first_id, pair_calls >>

\* show_advanced_menu, choice 1 confirmed with DELETE ALL:
\* visitor_service.blog_views.clear()
ClearAllData ==
    /\ blog_views' = << >>
    /\ result' = [ op |-> "clear_all_data" ]
    /\ UNCHANGED << pageviews, pageview_calls, pending >>
    /\ UNCHANGED << visitors, visitor_sessions, original_data, backup_data,
                    now, views_appended, tuple_calls, first_id, pair_calls >>

\* the wall clock advances between two operations; an operation reads it
\* once and runs to completion within that reading
Tick ==
    /\ now < MaxNow
    /\ now' = now + 1
    /\ UNCHANGED << pageviews, pageview_calls, pending >>
    /\ UNCHANGED << visitors, blog_views, visitor_sessions, original_data,
                    backup_data, views_appended, result, tuple_calls, first_id,
                    pair_calls >>

\* time passes between two operations: 12 hours, or 7 days
SleepSteps == { 1, timedelta_days(7) }

Sleep ==
    \E step \in SleepSteps :
        /\ now + step <= MaxLater
        /\ now' = now + step
        /\ UNCHANGED << visitors, blog_views, visitor_sessions, original_data,
                        backup_data, views_appended, result, tuple_calls,
                        first_id, pair_calls, pageviews, pageview_calls,
                        pending >>

\* the state of MemoryVisitorService with its history, of AnalyticsManager
\* and of MemoryPageviewService
visitor_state == << visitors, blog_views, visitor_sessions, views_appended,
                    tuple_calls, first_id, pair_calls >>
manager_state == << original_data, backup_data >>
pageview_state == << pageviews, pageview_calls >>

\* POST /blog/analytics/{slug}/view, while fewer than limit visits and views
\* are recorded
IncrementBlogViewWithin(limit) ==
    \E slug \in Slugs :
        LET known == IsVisitorKey(visitors, anonymous)
            r == increment_blog_view(visitors, visitor_sessions, blog_views,
                                     slug, now, ViewIdsDrawn)
            a == AttributeTuple(FallbackRequest)
        IN  /\ CallsRecorded < limit
            /\ visitors' = r.visitors
            /\ visitor_sessions' = r.visitor_sessions
            /\ views_appended' = views_appended + 1
            /\ blog_views' = r.blog_views
            /\ result' = [ op |-> "increment_blog_view", slug |-> slug,
                           response |-> r.response ]
            /\ tuple_calls' = IF known THEN tuple_calls
                              ELSE [ tuple_calls EXCEPT ![a] = @ + 1 ]
            /\ first_id' = IF ~known /\ first_id[a] = None
                           THEN [ first_id EXCEPT
                                    ![a] = Some(r.visitors[Len(r.visitors)].id) ]
                           ELSE first_id
            /\ pair_calls' = Counted(pair_calls, << anonymous, slug >>)
            /\ UNCHANGED << manager_state, pageview_state, now, pending >>

IncrementBlogView == IncrementBlogViewWithin(MaxCalls)

\* a slug no stored event carries, named by its rank among the slugs seen
fresh_slug(n) == << "post", n >>

\* a second token the registry never holds
guest == << "guest", 0 >>

\* POST /visitors/track-blog-view from readers, at most limit times: the
\* anonymous token reads a post nobody read, or the guest token reads the
\* post of the last event
ReadBlogPostWithin(limit) ==
    \E request \in
          { [ visitor_id |-> anonymous,
              blog_slug |-> fresh_slug(Cardinality(Range(
                  [ i \in DOMAIN blog_views |-> blog_views[i].blog_slug ])) + 1),
              blog_title |-> title ] : title \in Titles }
          \cup { [ visitor_id |-> guest,
                   blog_slug |-> blog_views[i].blog_slug,
                   blog_title |-> blog_views[i].blog_title ] :
                     i \in { Len(blog_views) } \ {0} } :
        LET known == IsVisitorKey(visitors, request.visitor_id)
            r == track_blog_view(visitors, visitor_sessions, blog_views,
                                 request, FALSE, now, ViewIdsDrawn)
            a == AttributeTuple(FallbackRequest)
        IN  /\ views_appended < limit
            /\ visitors' = r.visitors
            /\ visitor_sessions' = r.visitor_sessions
            /\ views_appended' = views_appended + 1
            /\ blog_views' = r.blog_views
            /\ result' = [ op |-> "track_blog_view", request |-> request,
                           is_localhost |-> FALSE,
                           response |-> r.response ]
            /\ tuple_calls' = IF known THEN tuple_calls
                              ELSE [ tuple_calls EXCEPT ![a] = @ + 1 ]
            /\ first_id' = IF ~known /\ first_id[a] = None
                           THEN [ first_id EXCEPT
                                    ![a] = Some(r.visitors[Len(r.visitors)].id) ]
                           ELSE first_id
            /\ pair_calls' = Counted(pair_calls, << request.visitor_id,
                                                    request.blog_slug >>)
            /\ UNCHANGED << manager_state, pageview_state, now, pending >>

ReadBlogPost == ReadBlogPostWithin(MaxRead)

\* GET /visitors/stats
GetVisitorStats ==
    /\ result' = [ op |-> "get_visitor_stats",
                   response |-> get_visitor_stats(visitors, blog_views) ]
    /\ StoresAfterRead

\* GET /blog/analytics/stats
GetBlogStats ==
    /\ result' = [ op |-> "get_blog_stats",
                   response |-> get_blog_stats(visitors, blog_views) ]
    /\ StoresAfterRead

\* BlogMultipleAnalyticsRequest.slugs, and the list GET /blog/views splits
\* its query string into
SlugLists == { << >>, << "intro" >>, << "x", "intro" >>, << "x", "x" >> }

\* POST /blog/analytics/multiple and GET /blog/views
GetMultipleBlogAnalytics ==
    \E slugs \in SlugLists :
        /\ result' = [ op |-> "get_multiple_blog_analytics", slugs |-> slugs,
                       response |-> get_multiple_blog_analytics(
                                        blog_views, slugs, now) ]
        /\ StoresAfterRead

\* the X-Screen-Resolution, X-Timezone, X-Platform and X-Session-ID headers
\* as request.headers.get reads them
Headers == { None }

\* POST /pageviews, while fewer than limit calls are recorded
TrackPageviewWithin(limit) ==
    \E request \in PageviewRequest :
    \E screen_resolution, timezone_str, platform, session_id \in Headers :
        LET r == track_pageview(pageviews, request, screen_resolution,
                                timezone_str, platform, session_id, now,
                                pageview_calls)
        IN  /\ CallsRecorded < limit
            /\ pageviews' = r.pageviews
            /\ pageview_calls' = pageview_calls + 1
            /\ result' = [ op |-> "track_pageview", request |-> request,
                           response |-> r.response ]
            /\ UNCHANGED << visitor_state, manager_state, now, pending >>

TrackPageview == TrackPageviewWithin(MaxPageviews)

\* a URL no stored pageview carries, named by its rank among the URLs seen
fresh_url(n) == << "/page", n >>

\* POST /pageviews from a browsing session, at most limit times: the page
\* of the last pageview is loaded again, or a page no pageview was tracked
\* for is opened; the request carries no timestamp
BrowsePageviewWithin(limit) ==
    \E url \in { fresh_url(Cardinality(Range(
                    [ i \in DOMAIN pageviews |-> pageviews[i].url ])) + 1) }
               \cup { pageviews[i].url : i \in { Len(pageviews) } \ {0} } :
    \E screen_resolution, timezone_str, platform, session_id \in Headers :
        LET request == [ url |-> url, title |-> None, referrer |-> None,
                         user_agent |-> None, timestamp |-> None ]
            r == track_pageview(pageviews, request, screen_resolution,
                                timezone_str, platform, session_id, now,
                                pageview_calls)
        IN  /\ pageview_calls < limit
            /\ pageviews' = r.pageviews
            /\ pageview_calls' = pageview_calls + 1
            /\ result' = [ op |-> "track_pageview", request |-> request,
                           response |-> r.response ]
            /\ UNCHANGED << visitor_state, manager_state, now, pending >>

BrowsePageview == BrowsePageviewWithin(MaxBrowsed)

\* GET /pageviews/stats
GetPageviewStats ==
    LET r == get_pageview_stats(pageviews, now)
    IN  /\ result' = [ op |-> "get_pageview_stats", raised |-> r.raised,
                       returned |-> r.returned ]
        /\ StoresAfterRead

\* ------------------------------------------ calls suspended at an await
\* pending holds one record per call that is suspended at an await, with the
\* call's arguments and locals and the place it resumes at:
\*   "track"        increment_blog_view before line 39 (line 35 has returned)
\*   "fallback"     track_blog_view on line 96, track_visitor not yet run
\*   "append"       track_blog_view before line 105 (line 96 has returned)
\*   "get_updated"  increment_blog_view on line 51 (line 48 has returned)
\* No other await is in the code of the tracking calls: track_visitor and
\* get_blog_views run from their first line to their return.
Suspended(call, pc, request, view_id, t, store_at_call, view_result) ==
    [ call |-> call, pc |-> pc, request |-> request, view_id |-> view_id,
      t |-> t, store_at_call |-> store_at_call, view_result |-> view_result ]

Without(tasks, i) ==
    [ k \in 1..(Len(tasks) - 1) |-> IF k < i THEN tasks[k] ELSE tasks[k + 1] ]

\* POST /visitors/track-blog-view arrives and runs to its first await: a
\* call with a known token meets none and completes, a call with an unknown
\* token is suspended on line 96
CallTrackBlogViewWithin(limit) ==
    \E request \in VisitorBlogViewRequest :
        LET view_id == uuid4("view", ViewIdsDrawn + 1)
            rest == track_blog_view_from_line_105(
                        store_read_after_await(blog_views, blog_views),
                        blog_views, request, FALSE, view_id, now)
        IN  /\ CallsRecorded < limit
            /\ IF IsVisitorKey(visitors, request.visitor_id)
               THEN /\ blog_views' = rest.blog_views
                    /\ views_appended' = views_appended + 1
                    /\ pair_calls' = Counted(pair_calls,
                           << request.visitor_id, request.blog_slug >>)
                    /\ result' = [ op |-> "track_blog_view",
                                   request |-> request,
                                   is_localhost |-> FALSE,
                                   response |-> rest.response ]
                    /\ UNCHANGED pending
               ELSE /\ pending' = Append(pending,
                           Suspended("track_blog_view", "fallback", request,
                                     Some(view_id), Some(now), blog_views,
                                     None))
                    /\ UNCHANGED << blog_views, views_appended, pair_calls,
                                    result >>
            /\ UNCHANGED << visitors, visitor_sessions, tuple_calls, first_id,
                            manager_state, pageview_state, now >>

\* POST /blog/analytics/{slug}/view arrives and runs to the await of line
\* 35, where get_blog_views returns current_data, which is not read again
CallIncrementBlogViewWithin(limit) ==
    \E slug \in Slugs :
        /\ CallsRecorded < limit
        /\ pending' = Append(pending,
               Suspended("increment_blog_view", "track",
                         anonymous_view_request(slug), None, None, << >>,
                         None))
        /\ UNCHANGED << visitor_state, manager_state, pageview_state, now,
                        result >>

\* increment_blog_view runs lines 39-48 and track_blog_view up to its await
ResumeTrack ==
    \E i \in DOMAIN pending :
        LET task == pending[i]
            view_id == uuid4("view", ViewIdsDrawn + 1)
            rest == track_blog_view_from_line_105(
                        store_read_after_await(blog_views, blog_views),
                        blog_views, task.request, FALSE, view_id, now)
        IN  /\ task.pc = "track"
            /\ IF IsVisitorKey(visitors, task.request.visitor_id)
               THEN /\ blog_views' = rest.blog_views
                    /\ views_appended' = views_appended + 1
                    /\ pair_calls' = Counted(pair_calls,
                           << task.request.visitor_id,
                              task.request.blog_slug >>)
                    /\ pending' = [ pending EXCEPT ![i] =
                           Suspended(task.call, "get_updated", task.request,
                                     Some(view_id), Some(now), blog_views,
                                     Some(rest.response)) ]
               ELSE /\ pending' = [ pending EXCEPT ![i] =
                           Suspended(task.call, "fallback", task.request,
                                     Some(view_id), Some(now), blog_views,
                                     None) ]
                    /\ UNCHANGED << blog_views, views_appended, pair_calls >>
            /\ UNCHANGED << visitors, visitor_sessions, tuple_calls, first_id,
                            manager_state, pageview_state, now, result >>

\* the track_visitor call awaited on line 96 runs and returns
ResumeFallback ==
    \E i \in DOMAIN pending :
        LET task == pending[i]
            r == track_visitor(visitors, visitor_sessions, FallbackRequest,
                               now)
            a == AttributeTuple(FallbackRequest)
        IN  /\ task.pc = "fallback"
            /\ visitors' = r.visitors
            /\ visitor_sessions' = r.visitor_sessions
            /\ tuple_calls' = [ tuple_calls EXCEPT ![a] = @ + 1 ]
            /\ first_id' = IF first_id[a] = None
                           THEN [ first_id EXCEPT
                                    ![a] = Some(r.response.visitor_id) ]
                           ELSE first_id
            /\ pending' = [ pending EXCEPT ![i].pc = "append" ]
            /\ UNCHANGED << blog_views, views_appended, pair_calls,
                            manager_state, pageview_state, now, result >>

\* track_blog_view runs from line 105 to its return
ResumeAppend ==
    \E i \in DOMAIN pending :
        LET task == pending[i]
            rest == track_blog_view_from_line_105(
                        store_read_after_await(task.store_at_call, blog_views),
                        blog_views, task.request, FALSE, task.view_id[1],
                        task.t[1])
        IN  /\ task.pc = "append"
            /\ blog_views' = rest.blog_views
            /\ views_appended' = views_appended + 1
            /\ pair_calls' = Counted(pair_calls,
                   << task.request.visitor_id, task.request.blog_slug >>)
            /\ IF task.call = "track_blog_view"
               THEN /\ pending' = Without(pending, i)
                    /\ result' = [ op |-> "track_blog_view",
                                   request |-> task.request,
                                   is_localhost |-> FALSE,
                                   response |-> rest.response ]
               ELSE /\ pending' = [ pending EXCEPT
                           ![i].pc = "get_updated",
                           ![i].view_result = Some(rest.response) ]
                    /\ UNCHANGED result
            /\ UNCHANGED << visitors, visitor_sessions, tuple_calls, first_id,
                            manager_state, pageview_state, now >>

\* increment_blog_view runs line 51 and returns
ResumeGetUpdated ==
    \E i \in DOMAIN pending :
        LET task == pending[i]
            updated_data == get_blog_views(blog_views, task.request.blog_slug,
                                           now)
        IN  /\ task.pc = "get_updated"
            /\ pending' = Without(pending, i)
            /\ result' = [ op |-> "increment_blog_view",
                           slug |-> task.request.blog_slug,
                           response |->
                               [ slug |-> task.request.blog_slug,
                                 total_views |-> updated_data.total_views,
                                 unique_views |-> updated_data.unique_views,
                                 is_new_view |->
                                     task.view_result[1].is_new_view ] ]
            /\ UNCHANGED << visitor_state, manager_state, pageview_state,
                            now >>

CallTrackBlogView == CallTrackBlogViewWithin(MaxConcurrentCalls)
CallIncrementBlogView == CallIncrementBlogViewWithin(MaxConcurrentCalls)

Next ==
    \/ TrackVisitor
    \/ TrackBlogView
    \/ GetBlogViews
    \/ GetAnalyticsOverview
    \/ CleanupLocalhostViews
    \/ RestoreData
    \/ ClearAllData
    \/ Tick
    \/ IncrementBlogView
    \/ GetVisitorStats
    \/ GetBlogStats
    \/ TrackPageview
    \/ GetPageviewStats
    \/ Sleep
    \/ CallTrackBlogView
    \/ CallIncrementBlogView
    \/ ResumeTrack
    \/ ResumeFallback
    \/ ResumeAppend
    \/ ResumeGetUpdated
    \/ BrowsePageview
    \/ ReadBlogPost
    \/ ArriveVisitor
    \/ GetMultipleBlogAnalytics
    \/ TrackHintedVisitor

Spec == Init /\ [][Next]_vars

\* the tracking calls and the per-slug read, at one clock reading
NextTracking ==
    \/ TrackVisitor
    \/ TrackBlogView
    \/ GetBlogViews

SpecTracking == Init /\ [][NextTracking]_vars

\* tracking, reads and the maintenance operations, at one clock reading
StoreTrackVisitor == TrackVisitorWithin(MaxStoreCalls)
StoreTrackBlogView == TrackBlogViewWithin(MaxStoreCalls)

NextMaintenance ==
    \/ StoreTrackVisitor
    \/ StoreTrackBlogView
    \/ GetBlogViews
    \/ GetAnalyticsOverview
    \/ CleanupLocalhostViews
    \/ RestoreData
    \/ ClearAllData

SpecMaintenance == Init /\ [][NextMaintenance]_vars

\* the pageview service as the clock advances
NextPageviews ==
    \/ TrackPageview
    \/ GetPageviewStats
    \/ Tick

SpecPageviews == Init /\ [][NextPageviews]_vars

\* the blog-view store read as its events age
AgingTrackBlogView == TrackBlogViewWithin(MaxAgingCalls)

NextAging ==
    \/ AgingTrackBlogView
    \/ GetBlogViews
    \/ Sleep

SpecAging == Init /\ [][NextAging]_vars

\* the pageview service as sessions browse more pages than top_pages holds
NextTopPages ==
    \/ BrowsePageview
    \/ GetPageviewStats

SpecTopPages == Init /\ [][NextTopPages]_vars

\* the blog statistics as readers open more posts than top_posts holds
NextTopPosts ==
    \/ ReadBlogPost
    \/ GetBlogStats

SpecTopPosts == Init /\ [][NextTopPosts]_vars

\* the visitor statistics as more browsers arrive than recent_visitors
\* holds, while the clock advances
NextRecentVisitors ==
    \/ ArriveVisitor
    \/ GetVisitorStats
    \/ Tick

SpecRecentVisitors == Init /\ [][NextRecentVisitors]_vars

\* the registry under requests that differ in what the fingerprint leaves
\* out
NextHinted ==
    \/ TrackHintedVisitor
    \/ GetVisitorStats

SpecHinted == Init /\ [][NextHinted]_vars

\* tracking calls that interleave at their awaits
ConcurrentTrackVisitor == TrackVisitorWithin(MaxConcurrentCalls)

NextConcurrent ==
    \/ ConcurrentTrackVisitor
    \/ CallTrackBlogView
    \/ CallIncrementBlogView
    \/ ResumeTrack
    \/ ResumeFallback
    \/ ResumeAppend
    \/ ResumeGetUpdated

SpecConcurrent == Init /\ [][NextConcurrent]_vars

\* the visitor service and the blog service with their reads, at one clock
\* reading
NextReads ==
    \/ TrackVisitor
    \/ TrackBlogView
    \/ IncrementBlogView
    \/ GetVisitorStats
    \/ GetBlogViews
    \/ GetBlogStats

SpecReads == Init /\ [][NextReads]_vars

\* every endpoint of the service and the manager's maintenance operations,
\* at one clock reading
ServiceTrackVisitor == TrackVisitorWithin(MaxServiceCalls)
ServiceTrackBlogView == TrackBlogViewWithin(MaxServiceCalls)
ServiceIncrementBlogView == IncrementBlogViewWithin(MaxServiceCalls)
ServiceTrackPageview == TrackPageviewWithin(MaxServiceCalls)

NextService ==
    \/ ServiceTrackVisitor
    \/ ServiceTrackBlogView
    \/ ServiceIncrementBlogView
    \/ ServiceTrackPageview
    \/ GetVisitorStats
    \/ GetBlogViews
    \/ GetBlogStats
    \/ GetMultipleBlogAnalytics
    \/ GetPageviewStats
    \/ GetAnalyticsOverview
    \/ CleanupLocalhostViews
    \/ RestoreData
    \/ ClearAllData

SpecService == Init /\ [][NextService]_vars

\* ================================================================ claims
\* the attribute strings of a tuple joined by the delimiter, as text
JoinedText(a) ==
    a[1] \o <<"|">> \o a[2] \o <<"|">> \o a[3] \o <<"|">> \o a[4]
         \o <<"|">> \o a[5]

RecordTuple(v) ==
    << v.user_agent, v.accept_language, v.screen_resolution, v.timezone,
       v.platform >>

\* C1: in every reachable state no two visitor records of the registry
\* carry the same fingerprint
C1_OneRecordPerFingerprint ==
    \A i, j \in DOMAIN visitors :
        visitors[i].fingerprint = visitors[j].fingerprint => i = j

\* two different attribute tuples with the same fingerprint were tracked,
\* and so was a third with another fingerprint
C1_Witness ==
    /\ Len(visitors) = 2
    /\ \E a, b \in AttributeTuples :
          a # b /\ JoinedText(a) = JoinedText(b)
                /\ tuple_calls[a] > 0 /\ tuple_calls[b] > 0

\* C2 as stated: the k-th track_visitor call made with attribute tuple A
\* returns the visitor_id of the first call made with A, is_new_visitor
\* exactly when k = 1, and total_visits = k
C2_KthCallOfTuple ==
    result.op = "track_visitor" =>
        LET a == AttributeTuple(result.request)
            k == tuple_calls[a]
        IN  /\ result.response.visitor_id = first_id[a][1]
            /\ result.response.is_new_visitor = (k = 1)
            /\ result.response.total_visits = k

RECURSIVE SumCalls(_)
SumCalls(tuples) ==
    IF tuples = {} THEN 0
    ELSE LET a == CHOOSE x \in tuples : TRUE
         IN  tuple_calls[a] + SumCalls(tuples \ {a})

SameFingerprintTuples(a) ==
    { b \in AttributeTuples : JoinedText(b) = JoinedText(a) }

\* C2 amended: k counts the track_visitor calls (the fallback call of
\* track_blog_view included) made with any tuple whose joined attribute text,
\* hence fingerprint, equals that of A; the k-th such call returns the
\* visitor_id every earlier such call returned, is_new_visitor exactly when
\* k = 1, total_visits = k, and exactly one record exists for that fingerprint
C2_KthCallOfFingerprint ==
    result.op = "track_visitor" =>
        LET a == AttributeTuple(result.request)
            k == SumCalls(SameFingerprintTuples(a))
        IN  /\ \A b \in SameFingerprintTuples(a) :
                  first_id[b] # None =>
                      first_id[b] = Some(result.response.visitor_id)
            /\ result.response.is_new_visitor = (k = 1)
            /\ result.response.total_visits = k
            /\ Cardinality({ i \in DOMAIN visitors :
                   JoinedText(RecordTuple(visitors[i])) = JoinedText(a) }) = 1

\* the first call with a tuple whose fingerprint an earlier call with another
\* tuple registered, made after a call for a third fingerprint
C2_Witness ==
    /\ result.op = "track_visitor"
    /\ tuple_calls[AttributeTuple(result.request)] = 1
    /\ result.response.total_visits = 2
    /\ ~result.response.is_new_visitor
    /\ Len(visitors) = 2
    /\ visitors[2].total_visits = 1
    /\ result.response.visitor_id = visitors[1].id

\* what one track_visitor call does to the visit counts
OneVisitCounted ==
    \/ /\ Len(visitors') = Len(visitors) + 1
       /\ visitors'[Len(visitors')].total_visits = 1
       /\ \A i \in DOMAIN visitors :
              visitors'[i].total_visits = visitors[i].total_visits
    \/ /\ Len(visitors') = Len(visitors)
       /\ \E i \in DOMAIN visitors :
              /\ visitors'[i].total_visits = visitors[i].total_visits + 1
              /\ \A j \in DOMAIN visitors \ {i} :
                     visitors'[j].total_visits = visitors[j].total_visits

VisitCountsKept ==
    /\ Len(visitors') = Len(visitors)
    /\ \A i \in DOMAIN visitors :
           visitors'[i].total_visits = visitors[i].total_visits

\* C3: every visitor's total_visits is at least 1 and never decreases; a
\* track_visitor call creates one visitor with count 1 or raises exactly one
\* count by exactly 1 and leaves the other counts as they were
C3_VisitCount ==
    /\ [](\A i \in DOMAIN visitors : visitors[i].total_visits >= 1)
    /\ [][ /\ \A i \in DOMAIN visitors :
                 /\ i \in DOMAIN visitors'
                 /\ visitors'[i].id = visitors[i].id
                 /\ visitors'[i].total_visits >= visitors[i].total_visits
           /\ TrackVisitor => OneVisitCounted
           /\ TrackBlogView => (OneVisitCounted \/ VisitCountsKept)
           /\ GetBlogViews => VisitCountsKept ]_vars

\* a returning visitor's count was raised while another record was present
C3_Witness ==
    /\ result.op = "track_visitor"
    /\ Len(visitors) = 2
    /\ \E i, j \in DOMAIN visitors :
           visitors[i].total_visits = 2 /\ visitors[j].total_visits = 1

\* the fields of a visitor record that are written once
Identity(v) ==
    << v.id, v.fingerprint, v.user_agent, v.accept_language,
       v.screen_resolution, v.timezone, v.platform, v.language, v.referrer,
       v.first_visit_at >>

\* C4: a track_visitor or track_blog_view call adds no record or one record
\* to the registry, and no operation (tracking, read, cleanup, restore)
\* removes a record or puts another in its place
C4_RegistryOnlyGrows ==
    [][ /\ Len(visitors') \in { Len(visitors), Len(visitors) + 1 }
        /\ \A i \in DOMAIN visitors :
               /\ i \in DOMAIN visitors'
               /\ Identity(visitors'[i]) = Identity(visitors[i])
        /\ ( \/ GetBlogViews \/ GetAnalyticsOverview \/ CleanupLocalhostViews
             \/ RestoreData \/ ClearAllData ) => visitors' = visitors ]_vars

\* a purge and a restore ran on a registry of two records
C4_Witness ==
    /\ result.op = "restore_data"
    /\ result.returned
    /\ Len(visitors) = 2
    /\ blog_views # << >>

\* the stored events of a (token, slug) pair, in store order
PairEvents(pair) ==
    SelectSeq(blog_views,
              LAMBDA v : v.visitor_id = pair[1] /\ v.blog_slug = pair[2])

StoredPairs ==
    { << blog_views[i].visitor_id, blog_views[i].blog_slug >> :
        i \in DOMAIN blog_views }

EarliestOnlyIsUnique(pair) ==
    \A i \in DOMAIN PairEvents(pair) :
        PairEvents(pair)[i].is_unique_view = (i = 1)

\* C5 as stated: after any sequence of track_blog_view calls and purges, the
\* earliest stored event of each (token, slug) pair has is_unique_view = true
\* and every later stored event of the pair has is_unique_view = false
C5_EarliestStoredIsUnique ==
    \A pair \in StoredPairs : EarliestOnlyIsUnique(pair)

\* C5 amended: the flag is computed against the store at insertion time and
\* never recomputed, so the statement holds of every pair all of whose
\* appended events are stored (none was purged or cleared, or restore_data
\* brought them back)
C5_EarliestIsUniqueWhileAllStored ==
    \A pair \in StoredPairs :
        Len(PairEvents(pair)) = pair_calls[pair] => EarliestOnlyIsUnique(pair)

\* a pair with a non-canonical first view and a canonical second one, after
\* the purge removed the first and restore_data brought it back
C5_Witness ==
    /\ result.op = "restore_data"
    /\ result.returned
    /\ \E pair \in StoredPairs :
           /\ Len(PairEvents(pair)) = 2
           /\ pair_calls[pair] = 2
           /\ PairEvents(pair)[1].is_localhost
           /\ ~PairEvents(pair)[2].is_localhost

\* C6: in a sequence of track_blog_view calls the first call for a
\* (token, slug) pair returns is_new_view = true and every later call for
\* the pair returns false, whatever calls for other pairs come in between
C6_FirstCallIsNewView ==
    result.op = "track_blog_view" =>
        LET pair == << result.request.visitor_id, result.request.blog_slug >>
        IN  result.response.is_new_view = (pair_calls[pair] = 1)

\* the second call for a pair, with a call for the other slug by the same
\* token in between
C6_Witness ==
    /\ result.op = "track_blog_view"
    /\ ~result.response.is_new_view
    /\ Len(blog_views) = 3
    /\ blog_views[1].visitor_id = blog_views[3].visitor_id
    /\ blog_views[1].blog_slug = blog_views[3].blog_slug
    /\ blog_views[2].visitor_id = blog_views[1].visitor_id
    /\ blog_views[2].blog_slug # blog_views[1].blog_slug
    /\ blog_views[2].is_unique_view

\* C7: track_blog_view returns total_blog_views equal to the number of
\* stored events of the slug once the event is appended, which is
\* get_blog_views(slug).total_views evaluated right after the call
C7_TotalCountsTheAppend ==
    result.op = "track_blog_view" =>
        /\ result.response.total_blog_views =
               get_blog_views(blog_views, result.request.blog_slug, now).total_views
        /\ result.response.total_blog_views =
               Cardinality({ i \in DOMAIN blog_views :
                   blog_views[i].blog_slug = result.request.blog_slug })

\* the second view of a slug, in a store that also holds the other slug
C7_Witness ==
    /\ result.op = "track_blog_view"
    /\ result.response.total_blog_views = 2
    /\ Len(blog_views) = 3

CanonicalEvents(views) == SelectSeq(views, LAMBDA v : ~v.is_localhost)

HoldsNonCanonical(views) == \E i \in DOMAIN views : views[i].is_localhost

\* C8: cleanup_localhost_views, called with either value of create_backup on
\* a store that holds a non-canonical event, leaves exactly the canonical
\* events in their order and returns after.localhost_views = 0 and
\* before.total_views - after.total_views = before.localhost_views
C8_PurgeRemovesAllNonCanonical ==
    [][ (CleanupLocalhostViews /\ HoldsNonCanonical(blog_views)) =>
            /\ blog_views' = CanonicalEvents(blog_views)
            /\ result'.returned # None
            /\ LET before == result'.returned[1][2]
                   after  == result'.returned[1][3]
               IN  /\ after.localhost_views = 0
                   /\ before.total_views - after.total_views
                        = before.localhost_views ]_vars

\* C9: a cleanup_localhost_views call on a store without non-canonical
\* events removes nothing, leaves store and registry as they were and
\* returns equal before and after snapshots
C9_PurgeIdempotent ==
    [][ (CleanupLocalhostViews /\ ~HoldsNonCanonical(blog_views)) =>
            /\ blog_views' = blog_views
            /\ visitors' = visitors
            /\ visitor_sessions' = visitor_sessions
            /\ result'.raised = None
            /\ result'.returned # None
            /\ result'.returned[1][1] = FALSE
            /\ result'.returned[1][2] = result'.returned[1][3]
            /\ result'.returned[1][2].total_views = Len(blog_views) ]_vars

\* a call that found nothing to remove, made on the canonical events an
\* earlier call had left
C9_Witness ==
    /\ result.op = "cleanup_localhost_views"
    /\ result.returned # None
    /\ result.returned[1][1] = FALSE
    /\ original_data # None
    /\ blog_views # << >>
    /\ blog_views = CanonicalEvents(original_data[1])
    /\ Len(original_data[1]) > Len(blog_views)

Stored(views) == { views[i] : i \in DOMAIN views }

\* C10 as stated: a stored canonical event is stored unchanged in every
\* later state, whatever tracking calls and maintenance operations
\* (cleanup, restore, clear-all) run
C10_CanonicalEventsKept ==
    [][ \A e \in Stored(CanonicalEvents(blog_views)) :
            e \in Stored(blog_views') ]_vars

\* C10 amended: tracking calls, reads and cleanup_localhost_views keep every
\* stored canonical event unchanged and in order, and the events cleanup
\* removes are non-canonical; restore_data (the store replaced by the copy
\* taken at the last successful cleanup) and clear-all can remove them
C10_CanonicalEventsKeptByTrackingAndPurge ==
    [][ /\ result'.op \notin { "restore_data", "clear_all_data" } =>
              /\ CanonicalEvents(blog_views') # CanonicalEvents(blog_views) =>
                     /\ result'.op = "track_blog_view"
                     /\ ~result'.is_localhost
                     /\ CanonicalEvents(blog_views')
                          = Append(CanonicalEvents(blog_views),
                                   blog_views'[Len(blog_views')])
              /\ Stored(blog_views) \ Stored(blog_views') # {} =>
                     result'.op = "cleanup_localhost_views"
        /\ result'.op = "cleanup_localhost_views" =>
              CanonicalEvents(blog_views') = CanonicalEvents(blog_views) ]_vars

\* a successful purge that left canonical events in place
C10_Witness ==
    /\ result.op = "cleanup_localhost_views"
    /\ result.returned # None
    /\ result.returned[1][1] = TRUE
    /\ blog_views # << >>
    /\ blog_views = CanonicalEvents(original_data[1])
    /\ Len(original_data[1]) > Len(blog_views)

\* ---------------------------------------------------------------- C11
\* C11: the pageview collection is append-only: every track_pageview call
\* appends exactly one event, identical requests included; no other
\* operation (cleanup_localhost_views, restore_data and clear-all included)
\* removes or changes a stored pageview; so the collection holds one event
\* per call made, and that number is the total get_pageview_stats returns
C11_PageviewsAppendOnly ==
    /\ [](/\ Len(pageviews) = pageview_calls
          /\ (result.op = "get_pageview_stats" /\ result.returned # None) =>
                 result.returned[1].total = pageview_calls)
    /\ [][ /\ Len(pageviews') >= Len(pageviews)
           /\ SubSeq(pageviews', 1, Len(pageviews)) = pageviews
           /\ result'.op = "track_pageview" =>
                  Len(pageviews') = Len(pageviews) + 1
           /\ result'.op # "track_pageview" => pageviews' = pageviews ]_vars

\* restore_data brought back what a purge had removed while a pageview was
\* stored
C11_Witness ==
    /\ result.op = "restore_data"
    /\ result.returned
    /\ HoldsNonCanonical(blog_views)
    /\ Len(pageviews) = 1
    /\ pageview_calls = 1

\* ---------------------------------------------------------------- C12
ReadOperations ==
    { "get_pageview_stats", "get_visitor_stats", "get_blog_views",
      "get_blog_stats" }

\* C12: after any sequence of tracking calls (track_pageview with the
\* timestamp absent, aware or naive, track_visitor, track_blog_view with a
\* known or unknown token) every read operation returns a result and does
\* not raise
C12_ReadsNeverFail ==
    result.op \in ReadOperations =>
        ("raised" \in DOMAIN result => result.raised = None)

\* ---------------------------------------------------------------- C13
\* C13: get_pageview_stats on an empty pageview store returns total, today,
\* yesterday, this_week and unique_urls 0 and no top page, and
\* get_blog_views for a slug without stored events returns total_views,
\* unique_views and recent_views 0 and no last_viewed_at; neither raises
C13_EmptyAggregatesAreZero ==
    /\ (result.op = "get_pageview_stats" /\ pageviews = << >>) =>
           /\ result.raised = None
           /\ result.returned =
                  Some([ total |-> 0, today |-> 0, yesterday |-> 0,
                         this_week |-> 0, unique_urls |-> 0,
                         top_pages |-> << >> ])
    /\ ( /\ result.op = "get_blog_views"
         /\ \A i \in DOMAIN blog_views :
                blog_views[i].blog_slug # result.slug ) =>
           result.response =
               [ slug |-> result.slug, total_views |-> 0, unique_views |-> 0,
                 recent_views |-> 0, last_viewed_at |-> None ]

\* get_blog_views was called for a slug without events while the store held
\* events of the other slug
C13_Witness ==
    /\ result.op = "get_blog_views"
    /\ blog_views # << >>
    /\ \A i \in DOMAIN blog_views : blog_views[i].blog_slug # result.slug
    /\ pageviews = << >>

\* ---------------------------------------------------------------- C14
\* the stored events of a slug, by position in the store
SlugEvents(slug) == { i \in DOMAIN blog_views : blog_views[i].blog_slug = slug }

\* C14: in every reachable state and for every slug, unique_views of
\* get_blog_views is the number of distinct visitor tokens among the slug's
\* stored events, is at most total_views, and is at least 1 when
\* total_views is
C14_UniqueViewsBounded ==
    \A slug \in Slugs :
        LET r == get_blog_views(blog_views, slug, now)
        IN  /\ r.unique_views =
                   Cardinality({ blog_views[i].visitor_id :
                                   i \in SlugEvents(slug) })
            /\ r.total_views = Cardinality(SlugEvents(slug))
            /\ r.unique_views <= r.total_views
            /\ r.total_views >= 1 => r.unique_views >= 1

\* a slug read with three events of two visitors
C14_Witness ==
    /\ result.op = "get_blog_views"
    /\ result.response.total_views = 3
    /\ result.response.unique_views = 2

\* ---------------------------------------------------------------- C15
\* C15: recent_views of get_blog_views counts exactly the stored events of
\* the slug whose age now - viewed_at is at most 7 days; an event of age
\* 7 days and 12 hours is not counted
C15_RecentWithinSevenDays ==
    [][ GetBlogViews =>
          result'.response.recent_views =
              Cardinality({ i \in SlugEvents(result'.slug) :
                              now - blog_views[i].viewed_at
                                  <= timedelta_days(7) }) ]_vars

\* ---------------------------------------------------------------- C16
\* C16: unique_blog_views of get_visitor_stats is the number of distinct
\* visitor tokens across all stored blog-view events (the size of the union
\* of the per-slug viewer sets), a visitor of several slugs counted once
C16_UniqueBlogViewsIsUnion ==
    result.op = "get_visitor_stats" =>
        result.response.unique_blog_views =
            Cardinality({ blog_views[i].visitor_id : i \in DOMAIN blog_views })

\* ---------------------------------------------------------------- C17
\* C17: in every reachable state the visitor token of every stored
\* blog-view event is the registry key of a visitor record, events tracked
\* with an unseen token and events of increment_blog_view included
C17_EventsReferenceVisitors ==
    \A i \in DOMAIN blog_views :
        \E j \in DOMAIN visitors : visitors[j].id = blog_views[i].visitor_id

\* ---------------------------------------------------------------- C18
\* C18: however the tracking calls interleave at their awaits, no two
\* visitor records carry the same fingerprint (no two track_visitor calls
\* for one fingerprint both found no record and both created one), and no
\* two stored events of one (token, slug) pair both have is_unique_view
\* true
C18_NoDuplicatesWhenInterleaved ==
    /\ \A i, j \in DOMAIN visitors :
           i # j => visitors[i].fingerprint # visitors[j].fingerprint
    /\ \A i, j \in DOMAIN blog_views :
           ( /\ i # j
             /\ blog_views[i].visitor_id = blog_views[j].visitor_id
             /\ blog_views[i].blog_slug = blog_views[j].blog_slug )
               => ~(blog_views[i].is_unique_view /\ blog_views[j].is_unique_view)

\* two calls for one pair overlapped: the call that drew its view id second
\* appended first, and the two fallback registrations met in one record
C18_Witness ==
    /\ Len(blog_views) = 2
    /\ blog_views[1].id = uuid4("view", 2)
    /\ blog_views[2].id = uuid4("view", 1)
    /\ blog_views[1].visitor_id = blog_views[2].visitor_id
    /\ blog_views[1].blog_slug = blog_views[2].blog_slug
    /\ Len(visitors) = 1
    /\ visitors[1].total_visits = 2

\* ---------------------------------------------------------------- C19
\* the stored pageviews whose timestamp lies in the day that starts at
\* clock reading start
InDay(start) ==
    { i \in DOMAIN pageviews :
        /\ start <= pageviews[i].timestamp[2]
        /\ pageviews[i].timestamp[2] < start + timedelta_days(1) }

\* C19: get_pageview_stats counts under today exactly the pageviews whose
\* timestamp lies in the midnight-to-midnight UTC day of the call, under
\* yesterday exactly those of the day before, and no pageview under both
C19_DayWindows ==
    [][ (GetPageviewStats /\ result'.returned # None) =>
          /\ result'.returned[1].today = Cardinality(InDay(midnight_of(now)))
          /\ result'.returned[1].yesterday =
                 Cardinality(InDay(midnight_of(now) - timedelta_days(1)))
          /\ InDay(midnight_of(now))
               \cap InDay(midnight_of(now) - timedelta_days(1)) = {} ]_vars

\* ---------------------------------------------------------------- C20
\* C20: track_pageview stores as timestamp the client's timestamp when the
\* request carries one and the receipt time otherwise; tracked_at is the
\* receipt time in either case and is what the call returns
C20_TimestampOrReceiptTime ==
    [][ result'.op = "track_pageview" /\ pageviews' # pageviews =>
          LET stored == pageviews'[Len(pageviews')]
          IN  /\ stored.timestamp =
                     IF result'.request.timestamp # None
                     THEN result'.request.timestamp[1] ELSE aware(now)
              /\ stored.tracked_at = aware(now)
              /\ result'.response.tracked_at = aware(now)
              /\ result'.response.pageview_id = stored.id ]_vars

\* a pageview with a client timestamp was tracked after one without, at a
\* later clock reading
C20_Witness ==
    /\ result.op = "track_pageview"
    /\ Len(pageviews) = 2
    /\ result.request.timestamp # None
    /\ pageviews[2].timestamp # pageviews[2].tracked_at
    /\ pageviews[1].timestamp = pageviews[1].tracked_at
    /\ pageviews[1].tracked_at # pageviews[2].tracked_at

\* ---------------------------------------------------------------- C21
\* the stored pageviews of a URL, by position in the store
UrlEvents(url) == { i \in DOMAIN pageviews : pageviews[i].url = url }

StoredUrls == { pageviews[i].url : i \in DOMAIN pageviews }

\* C21: unique_urls of get_pageview_stats is the number of distinct stored
\* URLs; top_pages holds min(10, unique_urls) entries for distinct URLs,
\* each with the number of stored pageviews of its URL, ordered by count
\* non-increasing and among equal counts by first appearance in the store;
\* no URL left out has a larger count than a URL in the list
C21_TopPages ==
    (result.op = "get_pageview_stats" /\ result.returned # None) =>
        LET stats == result.returned[1]
            top   == stats.top_pages
        IN  /\ stats.unique_urls = Cardinality(StoredUrls)
            /\ Len(top) = Min({ 10, Cardinality(StoredUrls) })
            /\ \A r \in DOMAIN top :
                   /\ top[r].url \in StoredUrls
                   /\ top[r].count = Cardinality(UrlEvents(top[r].url))
            /\ \A r, q \in DOMAIN top :
                   r < q =>
                       /\ top[r].url # top[q].url
                       /\ \/ top[r].count > top[q].count
                          \/ /\ top[r].count = top[q].count
                             /\ Min(UrlEvents(top[r].url))
                                  < Min(UrlEvents(top[q].url))
            /\ \A url \in StoredUrls \ { top[r].url : r \in DOMAIN top } :
                   \A r \in DOMAIN top :
                       Cardinality(UrlEvents(url)) <= top[r].count

\* eleven URLs are stored, the list holds ten and leaves out a URL seen
\* once, and the URL seen last leads the list with two pageviews
C21_Witness ==
    /\ result.op = "get_pageview_stats"
    /\ result.returned # None
    /\ result.returned[1].unique_urls = 11
    /\ Len(result.returned[1].top_pages) = 10
    /\ result.returned[1].top_pages[1].url = pageviews[Len(pageviews)].url
    /\ result.returned[1].top_pages[1].count = 2
    /\ result.returned[1].top_pages[2].url = pageviews[1].url

\* ---------------------------------------------------------------- C22
StoredSlugs == { blog_views[i].blog_slug : i \in DOMAIN blog_views }

\* C22: get_blog_stats returns total_blog_posts = the number of distinct
\* slugs with a stored event, total_views = the number of stored events,
\* average_views_per_post = 0 when no slug is stored, and top_posts of at
\* most 10 slugs (min(10, slugs) of them), ordered by view count
\* non-increasing and among equal counts by first appearance in the store,
\* each entry with its slug's number of events and of distinct tokens
C22_BlogStats ==
    result.op = "get_blog_stats" =>
        LET stats == result.response
            top   == stats.top_posts
        IN  /\ stats.total_blog_posts = Cardinality(StoredSlugs)
            /\ stats.total_views = Len(blog_views)
            /\ (StoredSlugs = {} => stats.average_views_per_post = 0)
            /\ Len(top) <= 10
            /\ Len(top) = Min({ 10, Cardinality(StoredSlugs) })
            /\ \A r \in DOMAIN top :
                   /\ top[r].slug \in StoredSlugs
                   /\ top[r].view_count = Cardinality(SlugEvents(top[r].slug))
                   /\ top[r].unique_viewers =
                          Cardinality({ blog_views[i].visitor_id :
                                          i \in SlugEvents(top[r].slug) })
            /\ \A r, q \in DOMAIN top :
                   r < q =>
                       /\ top[r].slug # top[q].slug
                       /\ \/ top[r].view_count > top[q].view_count
                          \/ /\ top[r].view_count = top[q].view_count
                             /\ Min(SlugEvents(top[r].slug))
                                  < Min(SlugEvents(top[q].slug))

\* eleven slugs are stored and top_posts holds ten; the slug read last
\* leads with two events from two tokens, the slug read first follows
C22_Witness ==
    /\ result.op = "get_blog_stats"
    /\ result.response.total_blog_posts = 11
    /\ Len(result.response.top_posts) = 10
    /\ result.response.top_posts[1].slug = blog_views[Len(blog_views)].blog_slug
    /\ result.response.top_posts[1].view_count = 2
    /\ result.response.top_posts[1].unique_viewers = 2
    /\ result.response.top_posts[2].slug = blog_views[1].blog_slug

\* ---------------------------------------------------------------- C23
\* C23: get_visitor_stats reports new_visitors = the number of visitors with
\* total_visits = 1 and returning_visitors = the number with total_visits
\* >= 2, and the two add up to total_visitors, the size of the registry
C23_NewAndReturning ==
    result.op = "get_visitor_stats" =>
        LET stats == result.response
            with(P(_)) == Cardinality({ i \in DOMAIN visitors : P(visitors[i]) })
            once(v)    == v.total_visits = 1
            more(v)    == v.total_visits >= 2
        IN  /\ stats.new_visitors = with(once)
            /\ stats.returning_visitors = with(more)
            /\ stats.total_visitors = Len(visitors)
            /\ stats.new_visitors + stats.returning_visitors
                 = stats.total_visitors

\* the registry holds a visitor seen once and a visitor seen again
C23_Witness ==
    /\ result.op = "get_visitor_stats"
    /\ result.response.new_visitors >= 1
    /\ result.response.returning_visitors >= 1
    /\ \E i \in DOMAIN visitors : visitors[i].total_visits >= 3

\* ---------------------------------------------------------------- C24
\* the place in the registry of the visitor an entry of recent_visitors names
RegistryIndex(entry) ==
    CHOOSE i \in DOMAIN visitors : visitors[i].id = entry.visitorId

\* C24: recent_visitors of get_visitor_stats holds min(10, registry size)
\* entries of distinct registered visitors, each with the visitor's
\* last_visit_at, ordered by last_visit_at descending and among equal times
\* by registry insertion order; no visitor left out has a later
\* last_visit_at than a visitor in the list
C24_RecentVisitors ==
    [][ GetVisitorStats =>
          LET recent == result'.response.recent_visitors
              at(r)  == visitors[RegistryIndex(recent[r])].last_visit_at
          IN  /\ Len(recent) = Min({ 10, Len(visitors) })
              /\ \A r \in DOMAIN recent :
                     /\ IsVisitorKey(visitors, recent[r].visitorId)
                     /\ recent[r].lastVisitAt = isoformat(at(r))
              /\ \A r, q \in DOMAIN recent :
                     r < q =>
                         /\ RegistryIndex(recent[r]) # RegistryIndex(recent[q])
                         /\ \/ at(r) > at(q)
                            \/ /\ at(r) = at(q)
                               /\ RegistryIndex(recent[r])
                                    < RegistryIndex(recent[q])
              /\ \A i \in DOMAIN visitors :
                     (\A r \in DOMAIN recent : RegistryIndex(recent[r]) # i)
                         => \A r \in DOMAIN recent :
                                visitors[i].last_visit_at <= at(r) ]_vars

\* eleven visitors are registered and the list holds ten: the first
\* visitor, who returned last, leads it, two visitors last seen at the same
\* time follow in registry order, and a visitor seen earlier is left out
C24_Witness ==
    /\ result.op = "get_visitor_stats"
    /\ Len(visitors) = 11
    /\ Len(result.response.recent_visitors) = 10
    /\ result.response.recent_visitors[1].visitorId = visitors[1].id
    /\ result.response.recent_visitors[2].visitorId = visitors[10].id
    /\ result.response.recent_visitors[3].visitorId = visitors[11].id
    /\ visitors[10].last_visit_at = now
    /\ visitors[2].last_visit_at < now

\* ---------------------------------------------------------------- C25
\* a step of one of the six read operations
ReadStep ==
    \/ result'.op = "get_visitor_stats" /\ GetVisitorStats
    \/ result'.op = "get_blog_views" /\ GetBlogViews
    \/ result'.op = "get_pageview_stats" /\ GetPageviewStats
    \/ result'.op = "get_blog_stats" /\ GetBlogStats
    \/ result'.op = "get_multiple_blog_analytics" /\ GetMultipleBlogAnalytics
    \/ result'.op = "get_analytics_overview" /\ GetAnalyticsOverview

\* the read of this step is the read that ran last, with the same arguments
SameReadAgain ==
    /\ result'.op = result.op
    /\ result.op = "get_blog_views" => result'.slug = result.slug
    /\ result.op = "get_multiple_blog_analytics" => result'.slugs = result.slugs

C26_IdentityFromFiveFields ==
    /\ result.op = "track_visitor" =>
           LET a == AttributeTuple(result.request)
           IN  /\ first_id[a] = Some(result.response.visitor_id)
               /\ result.response.is_new_visitor = (tuple_calls[a] = 1)
               /\ result.response.total_visits = tuple_calls[a]
    /\ \A i \in DOMAIN visitors :
           \A request \in HintedTrackRequest :
               AttributeTuple(request) = AttributeTuple(visitors[i])
                   => _generate_fingerprint(request) = visitors[i].fingerprint

\* a visitor registered without a hint was found again by a request with
\* another language, a referrer and a hint that names another visitor
C26_Witness ==
    /\ result.op = "track_visitor"
    /\ result.response.is_new_visitor = FALSE
    /\ result.request.visitor_id = Some(uuid4("visitor", 1))
    /\ result.response.visitor_id = uuid4("visitor", 2)
    /\ result.request.referrer # None
    /\ \E i \in DOMAIN visitors :
           /\ visitors[i].id = result.response.visitor_id
           /\ visitors[i].language # result.request.language
           /\ visitors[i].referrer = None

\* ---------------------------------------------------------------- C27
\* the fingerprint of the placeholder attributes of the fallback
FallbackFingerprint == _generate_fingerprint(FallbackRequest)

\* the records of a registry that carry the fallback fingerprint
FallbackRecords(vs) ==
    { i \in DOMAIN vs : vs[i].fingerprint = FallbackFingerprint }

\* C27: a track_blog_view call returns and appends exactly one event, which
\* carries the caller's token; when the token is a registry key the
\* registry and the session lists stay as they are; when it is not, the
\* registry keeps its records' keys and gains at most one record, the
\* fallback visitor, and only if it held none, so that over any number of
\* such calls it gains at most one
C27_UnknownTokenFallback ==
    [][ (result'.op = "track_blog_view" /\ views_appended' = views_appended + 1)
          => LET token == result'.request.visitor_id
                 known == \E i \in DOMAIN visitors : visitors[i].id = token
             IN  /\ Len(blog_views') = Len(blog_views) + 1
                 /\ SubSeq(blog_views', 1, Len(blog_views)) = blog_views
                 /\ blog_views'[Len(blog_views')].visitor_id = token
                 /\ blog_views'[Len(blog_views')].id = result'.response.view_id
                 /\ known => UNCHANGED << visitors, visitor_sessions >>
                 /\ ~known =>
                        /\ Len(visitors') \in { Len(visitors), Len(visitors) + 1 }
                        /\ \A i \in DOMAIN visitors :
                               visitors'[i].id = visitors[i].id
                        /\ Len(visitors') = Len(visitors) + 1
                               => /\ FallbackRecords(visitors) = {}
                                  /\ FallbackRecords(visitors')
                                       = { Len(visitors') }
                        /\ Cardinality(FallbackRecords(visitors')) = 1 ]_vars

\* the second call with a token the registry does not hold has run, after a
\* browser registered: two events carry the token and the registry holds
\* that browser and one fallback visitor, seen twice
C27_Witness ==
    /\ result.op = "track_blog_view"
    /\ result.request.visitor_id \in UnknownTokens
    /\ Len(blog_views) = 2
    /\ \A i \in DOMAIN blog_views :
           blog_views[i].visitor_id = result.request.visitor_id
    /\ Len(visitors) = 2
    /\ FallbackRecords(visitors) = { 2 }
    /\ visitors[2].total_visits = 2

\* ---------------------------------------------------------------- C28
\* C28: increment_blog_view(slug) appends exactly one event, for the slug
\* and with the token "anonymous", and returns the slug as given,
\* total_views = the slug's events before the call plus 1, unique_views =
\* the distinct tokens of the slug's events after the append, and
\* is_new_view true exactly when no earlier event of the slug carries the
\* token "anonymous"
C28_IncrementBlogView ==
    [][ (result'.op = "increment_blog_view"
           /\ views_appended' = views_appended + 1)
          => LET slug     == result'.slug
                 response == result'.response
                 after    == { i \in DOMAIN blog_views' :
                                 blog_views'[i].blog_slug = slug }
             IN  /\ Len(blog_views') = Len(blog_views) + 1
                 /\ SubSeq(blog_views', 1, Len(blog_views)) = blog_views
                 /\ blog_views'[Len(blog_views')].blog_slug = slug
                 /\ blog_views'[Len(blog_views')].visitor_id = anonymous
                 /\ response.slug = slug
                 /\ response.total_views = Cardinality(SlugEvents(slug)) + 1
                 /\ response.unique_views =
                        Cardinality({ blog_views'[i].visitor_id : i \in after })
                 /\ response.is_new_view =
                        (\A i \in SlugEvents(slug) :
                             blog_views[i].visitor_id # anonymous) ]_vars

\* the first increment for a slug a registered visitor has viewed: two
\* events, two tokens, a new view
C28_Witness ==
    /\ result.op = "increment_blog_view"
    /\ result.response.total_views = 2
    /\ result.response.unique_views = 2
    /\ result.response.is_new_view

\* ---------------------------------------------------------------- C29
\* C29: every result get_pageview_stats returns has today + yesterday <=
\* this_week <= total and unique_urls <= total, with client-supplied
\* timestamps of the past and of the future in the store
C29_PageviewCountsOrdered ==
    (result.op = "get_pageview_stats" /\ result.returned # None) =>
        LET stats == result.returned[1]
        IN  /\ stats.today + stats.yesterday <= stats.this_week
            /\ stats.this_week <= stats.total
            /\ stats.unique_urls <= stats.total
            /\ stats.total = Len(pageviews)

\* the store holds a pageview dated in the future, one dated yesterday and
\* one dated more than a week ago
C29_Witness ==
    /\ result.op = "get_pageview_stats"
    /\ result.returned # None
    /\ result.returned[1].total = 3
    /\ result.returned[1].this_week = 2
    /\ result.returned[1].today = 1
    /\ result.returned[1].yesterday = 1
    /\ \E i \in DOMAIN pageviews : pageviews[i].timestamp = aware(now + 2)

\* ---------------------------------------------------------------- C30
\* the outcome of a cleanup_localhost_views call that returned True
SuccessfulCleanup(outcome) ==
    /\ outcome.op = "cleanup_localhost_views"
    /\ outcome.returned # None
    /\ outcome.returned[1][1]

\* C30: original_data is set by the cleanups that return True and by
\* nothing else, to the store as it is when the cleanup starts; restore_data
\* returns False and leaves the store as it is while no cleanup has
\* returned True, and otherwise returns True and sets the store to the
\* contents it had before the last such cleanup, events and order; a
\* restore that follows the cleanup directly yields the store the cleanup
\* counted in its before statistics, of which the cleaned store is the
\* canonical part
C30_RestoreAfterCleanup ==
    [][ /\ original_data' # original_data => SuccessfulCleanup(result')
        /\ SuccessfulCleanup(result') => original_data' = Some(blog_views)
        /\ result'.op = "restore_data" =>
               IF original_data = None
               THEN /\ result'.returned = FALSE
                    /\ blog_views' = blog_views
               ELSE /\ result'.returned = TRUE
                    /\ blog_views' = original_data[1]
        /\ (SuccessfulCleanup(result) /\ result'.op = "restore_data") =>
               /\ Len(blog_views') = result.returned[1][2].total_views
               /\ Len(SelectSeq(blog_views', LAMBDA v : v.is_localhost))
                    = result.returned[1][2].localhost_views
               /\ SelectSeq(blog_views', LAMBDA v : ~v.is_localhost)
                    = blog_views ]_vars

\* a restore has brought back a localhost event a cleanup had removed, next
\* to the canonical event it had kept
C30_Witness ==
    /\ result.op = "restore_data"
    /\ result.returned = TRUE
    /\ original_data = Some(blog_views)
    /\ Len(blog_views) = 2
    /\ blog_views[1].is_localhost
    /\ ~blog_views[2].is_localhost
====
